---- MODULE Spec2Model ----
(***************************************************************************)
(* Model of @formvuelatte/plugin-lookup (src/src/index.js).                *)
(*                                                                         *)
(* JavaScript objects live in a heap: `heap` is the sequence of the live   *)
(* element objects, a reference is an index into it.  An element object is *)
(* a function from its own property names to its values.  Arrays (schema   *)
(* and rows) are only ever read and rebuilt with Array.prototype.map, so   *)
(* they are modelled as sequence values of references.                     *)
(***************************************************************************)
EXTENDS Integers, Sequences, FiniteSets, TLC

\* ------------------------------------------------------------------ bounds
MaxRows == 2      \* rows of an input schema
MaxElems == 2     \* elements of an input schema, all rows together
MaxRules == 2     \* entries of a property mapping

\* -------------------------------------------------------------- JS values
\* A JavaScript primitive: its typeof and its String() conversion.
Str(s) == [t |-> "string", v |-> s]
False == [t |-> "boolean", v |-> "false"]
Undefined == [t |-> "undefined", v |-> "undefined"]
Null == [t |-> "object", v |-> "null"]
Zero == [t |-> "number", v |-> "0"]

\* !x for the primitives above.
Falsy(x) == x \in {False, Undefined, Null, Zero, Str("")}

\* The property key a value is converted to in  obj[x].
ToPropertyKey(x) == x.v

\* A replacement directive: a literal value, or a function of the element
\* (modelled by the value it returns).
Lit(x) == [isFn |-> FALSE, val |-> x]
Fn(x) == [isFn |-> TRUE, val |-> x]

\* --------------------------------------------------------- object helpers
\* delete obj[p]
DeleteProp(obj, p) == [k \in DOMAIN obj \ {p} |-> obj[k]]

\* obj[q] = v
SetProp(obj, q, v) == [k \in DOMAIN obj \cup {q} |-> IF k = q THEN v ELSE obj[k]]

\* A schema value: undefined, or the rows (sequences of references).
UndefinedSchema == [def |-> FALSE, rows |-> <<>>]
SchemaOf(rows) == [def |-> TRUE, rows |-> rows]

\* --------------------------------------------------- replacePropInElement
\* Result of a call: the heap after it and the reference returned.
replacePropInElement_alias(h, el, prop, replacement) ==
  LET propReplacement == replacement.val IN
  IF replacement.isFn /\ Falsy(propReplacement) THEN [h |-> h, r |-> el]
  ELSE IF prop \notin DOMAIN h[el] THEN [h |-> h, r |-> el]
  ELSE LET originalValue == h[el][prop]
           deleted == DeleteProp(h[el], prop)
       IN IF propReplacement = False
            THEN [h |-> [h EXCEPT ![el] = deleted], r |-> el]
            ELSE [h |-> [h EXCEPT ![el] =
                            SetProp(deleted, ToPropertyKey(propReplacement), originalValue)],
                  r |-> el]

replacePropInElement_keepsProp(h, el, prop, replacement) ==
  LET propReplacement == replacement.val IN
  IF replacement.isFn /\ Falsy(propReplacement) THEN [h |-> h, r |-> el]
  ELSE IF prop \notin DOMAIN h[el] THEN [h |-> h, r |-> el]
  ELSE LET originalValue == h[el][prop]
           elementCopy == Len(h) + 1
       IN IF propReplacement = False
            THEN [h |-> Append(h, h[el]), r |-> elementCopy]
            ELSE [h |-> Append(h, SetProp(h[el], ToPropertyKey(propReplacement),
                                          originalValue)),
                  r |-> elementCopy]

replacePropInElement_fnDeletes(h, el, prop, replacement) ==
  LET propReplacement == replacement.val IN
  IF prop \notin DOMAIN h[el] THEN [h |-> h, r |-> el]
  ELSE LET originalValue == h[el][prop]
           elementCopy == Len(h) + 1
           deleted == DeleteProp(h[el], prop)
       IN IF Falsy(propReplacement)
            THEN [h |-> Append(h, deleted), r |-> elementCopy]
            ELSE [h |-> Append(h, SetProp(deleted, ToPropertyKey(propReplacement),
                                          originalValue)),
                  r |-> elementCopy]

replacePropInElement(h, el, prop, replacement) ==
  LET propReplacement == replacement.val IN
  IF replacement.isFn /\ Falsy(propReplacement) THEN [h |-> h, r |-> el]
  ELSE IF prop \notin DOMAIN h[el] THEN [h |-> h, r |-> el]
  ELSE LET originalValue == h[el][prop]
           elementCopy == Len(h) + 1
           deleted == DeleteProp(h[el], prop)
       IN IF propReplacement = False
            THEN [h |-> Append(h, deleted), r |-> elementCopy]
            ELSE [h |-> Append(h, SetProp(deleted, ToPropertyKey(propReplacement),
                                          originalValue)),
                  r |-> elementCopy]

\* ------------------------------------------------------- property mappings
\* One entry of a property mapping: the property and its directive.
Rule(prop, directive) == [prop |-> prop, directive |-> directive]

\* mapProps as given to LookupPlugin.  kind is  "null" (the default),
\* "number" (a truthy value that is neither an object nor a function),
\* "object" (a static mapping, `rules` in declaration order) or "function"
\* (a per-element function: `fname` names it, `rules` is what a constant
\* one returns).
NoMapProps == [kind |-> "null", fname |-> "", rules |-> <<>>]
InvalidMapProps == [kind |-> "number", fname |-> "", rules |-> <<>>]
StaticMapping(rules) == [kind |-> "object", fname |-> "", rules |-> rules]
ConstFunction(rules) == [kind |-> "function", fname |-> "const", rules |-> rules]
MapperFunction == [kind |-> "function", fname |-> "mapper", rules |-> <<>>]

Truthy(mp) == mp.kind # "null"
Typeof(mp) == IF mp.kind = "null" THEN "object" ELSE mp.kind

\* The mapping a per-element function returns for the element object `obj`.
\* "mapper" is the function of the test 'can receive a function to create
\* the mapping'.
CallUserFunction(fn, obj) ==
  IF fn.fname = "mapper"
    THEN IF "type" \in DOMAIN obj /\ obj["type"] = "FormText"
           THEN << Rule("mappable", Lit(Str("remapped"))),
                   Rule("type", Lit(Str("component"))) >>
           ELSE << Rule("type", Lit(Str("component"))) >>
    ELSE fn.rules

\* ------------------------------------------------------ mapPropsForElement
mapPropsForElement(h, el, fn) ==
  LET map == CallUserFunction(fn, h[el])
      step[i \in 0..Len(map)] ==
        IF i = 0 THEN [h |-> h, r |-> el]
        ELSE LET prev == step[i-1]
             IN replacePropInElement(prev.h, prev.r, map[i].prop, map[i].directive)
  IN step[Len(map)]

\* ------------------------------------------------------------- mapComps
\* The arrow function mapComps passes to mapElementsInSchema.
mapCompsElement(h, el, table) ==
  LET key == IF "component" \in DOMAIN h[el] THEN h[el]["component"] ELSE "undefined"
      newKey == IF key \in DOMAIN table THEN Str(table[key]) ELSE Undefined
  IN IF Falsy(newKey) THEN [h |-> Append(h, h[el]), r |-> Len(h) + 1]
     ELSE [h |-> Append(h, SetProp(h[el], "component", table[key])), r |-> Len(h) + 1]

\* ------------------------------------------------------------- closures
\* The functions handed to mapElementsInSchema, as data.
CompsClosure(table) ==
  [kind |-> "mapComps", table |-> table, prop |-> "", directive |-> Lit(False),
   fn |-> NoMapProps]
ReplaceClosure(prop, directive) ==
  [kind |-> "replaceProp", table |-> <<>>, prop |-> prop, directive |-> directive,
   fn |-> NoMapProps]
UserFunctionClosure(fn) ==
  [kind |-> "userFunction", table |-> <<>>, prop |-> "", directive |-> Lit(False),
   fn |-> fn]

\* fn(el)
Apply(h, closure, el) ==
  CASE closure.kind = "mapComps" -> mapCompsElement(h, el, closure.table)
    [] closure.kind = "replaceProp" ->
         replacePropInElement(h, el, closure.prop, closure.directive)
    [] closure.kind = "userFunction" -> mapPropsForElement(h, el, closure.fn)

\* ---------------------------------------------------- mapElementsInSchema
\* row.map(el => fn(el))
MapRow(h, row, closure) ==
  LET step[i \in 0..Len(row)] ==
        IF i = 0 THEN [h |-> h, r |-> <<>>]
        ELSE LET prev == step[i-1]
                 a == Apply(prev.h, closure, row[i])
             IN [h |-> a.h, r |-> Append(prev.r, a.r)]
  IN step[Len(row)]

\* schema.map(row => ...); a schema that is undefined has no map method.
mapElementsInSchema(h, schema, closure) ==
  IF ~schema.def THEN [h |-> h, r |-> UndefinedSchema, err |-> "TypeError"]
  ELSE LET rows == schema.rows
           step[i \in 0..Len(rows)] ==
             IF i = 0 THEN [h |-> h, r |-> <<>>]
             ELSE LET prev == step[i-1]
                      a == MapRow(prev.h, rows[i], closure)
                  IN [h |-> a.h, r |-> Append(prev.r, a.r)]
           last == step[Len(rows)]
       IN [h |-> last.h, r |-> SchemaOf(last.r), err |-> "none"]

mapComps(h, schema, table) == mapElementsInSchema(h, schema, CompsClosure(table))

\* ------------------------------------------------------------ mapProperties
mapPropertiesWithUserFunction(h, schema, fn) ==
  mapElementsInSchema(h, schema, UserFunctionClosure(fn))

mapProperties(h, schema, mp) ==
  IF ~Truthy(mp) \/ Typeof(mp) \notin {"object", "function"}
    THEN [h |-> h, r |-> schema, err |-> "none"]
  ELSE IF Typeof(mp) = "function" THEN mapPropertiesWithUserFunction(h, schema, mp)
  ELSE LET rules == mp.rules
           \* let schemaCopy; each pass maps the ORIGINAL schema
           step[i \in 0..Len(rules)] ==
             IF i = 0 THEN [h |-> h, r |-> UndefinedSchema, err |-> "none"]
             ELSE mapElementsInSchema(step[i-1].h, schema,
                                      ReplaceClosure(rules[i].prop, rules[i].directive))
       IN step[Len(rules)]

\* ------------------------------------------------------------- heap views
\* The references of a schema value, in order.
Refs(schema) ==
  LET rows == schema.rows
      step[i \in 0..Len(rows)] == IF i = 0 THEN <<>> ELSE step[i-1] \o rows[i]
  IN step[Len(rows)]

\* The contents of a schema value: rows of element objects.
Deep(h, schema) ==
  [def |-> schema.def,
   rows |-> [i \in DOMAIN schema.rows |->
               [j \in DOMAIN schema.rows[i] |-> h[schema.rows[i][j]]]]]

\* The first occurrences of a sequence, in order.
Dedup(seq) ==
  LET step[i \in 0..Len(seq)] ==
        IF i = 0 THEN <<>>
        ELSE LET prev == step[i-1]
             IN IF \E j \in 1..Len(prev) : prev[j] = seq[i]
                  THEN prev ELSE Append(prev, seq[i])
  IN step[Len(seq)]

\* Garbage collection: keep the objects `live` names (a sequence of
\* references), numbered in that order.  Returns the new heap and the
\* renumbering.
Collect(h, live) ==
  LET order == Dedup(live)
  IN [h |-> [i \in 1..Len(order) |-> h[order[i]]],
      at |-> [r \in {order[i] : i \in 1..Len(order)} |->
                CHOOSE i \in 1..Len(order) : order[i] = r]]

Renumber(schema, at) ==
  [def |-> schema.def,
   rows |-> [i \in DOMAIN schema.rows |->
               [j \in DOMAIN schema.rows[i] |-> at[schema.rows[i][j]]]]]

\* ------------------------------------------------------------------ inputs
\* Element objects of the input schemas.
ElementValues ==
  { [model |-> "firstName", type |-> "FormText", label |-> "First Name"],
    [type |-> "FormSelect", component |-> "FormText"] }

SeqsUpTo(S, n) == UNION { [1..k -> S] : k \in 0..n }

\* The input schemas (as contents): at most MaxRows rows holding at most
\* MaxElems elements together.
SchemaValues ==
  { rows \in SeqsUpTo(SeqsUpTo(ElementValues, MaxElems), MaxRows) :
      Len(Refs(SchemaOf(rows))) <= MaxElems }

\* A schema built by the host: every element a new object of the heap.
NewSchema(h, rows) ==
  LET start[i \in 1..Len(rows) + 1] ==
        IF i = 1 THEN Len(h) ELSE start[i-1] + Len(rows[i-1])
  IN [h |-> h \o Refs(SchemaOf(rows)),
      r |-> SchemaOf([i \in 1..Len(rows) |->
                        [j \in 1..Len(rows[i]) |-> start[i] + j]])]

\* Component-mapping tables.
Tables ==
  { <<>>,
    [FormText |-> "BaseInput"],
    [FormText |-> ""],
    [FormText |-> "BaseInput", FormSelect |-> "BaseSelect"] }

\* Replacement directives given to the Property Rewriter.
Directives ==
  { Lit(False), Lit(Str("component")), Lit(Str("tag")), Lit(Str("type")),
    Fn(False), Fn(Undefined), Fn(Null), Fn(Str("")), Fn(Zero),
    Fn(Str("tag")), Fn(Str("component")) }

PropNames == {"type", "label", "model"}

\* Directives used in the entries of property mappings.
MappingDirectives == { Lit(False), Lit(Str("component")), Lit(Str("tag")), Fn(False) }

\* Property mappings: at most MaxRules entries, no property twice (an
\* object's keys are distinct), in declaration order.
Mappings ==
  { m \in SeqsUpTo({ Rule(p, d) : p \in PropNames, d \in MappingDirectives }, MaxRules) :
      \A i, j \in 1..Len(m) : i # j => m[i].prop # m[j].prop }

MapPropsValues ==
  { NoMapProps, InvalidMapProps, MapperFunction }
    \cup { StaticMapping(m) : m \in Mappings }
    \cup { ConstFunction(m) : m \in Mappings }

\* The configurations LookupPlugin is constructed with: the default, those of
\* the tests and the README, and the edge cases of the specification.
Configuration(table, mp) == [mapComponents |-> table, mapProps |-> mp]
Configurations ==
  { Configuration(<<>>, NoMapProps),
    Configuration(<<>>, InvalidMapProps),
    Configuration([FormText |-> "BaseInput"],
                  StaticMapping(<< Rule("type", Lit(Str("component"))) >>)),
    Configuration(<<>>, StaticMapping(<< Rule("label", Lit(Str("tag"))) >>)),
    Configuration(<<>>, MapperFunction),
    Configuration(<<>>, StaticMapping(<< Rule("label", Lit(False)) >>)),
    Configuration(<<>>, ConstFunction(<< Rule("label", Lit(False)) >>)),
    Configuration([FormText |-> "BaseInput"],
                  StaticMapping(<< Rule("type", Lit(Str("component"))),
                                   Rule("label", Lit(False)) >>)),
    Configuration([FormText |-> "BaseInput", FormSelect |-> "BaseSelect"],
                  ConstFunction(<< Rule("type", Lit(Str("component"))),
                                   Rule("label", Lit(Str("tag"))) >>)),
    Configuration([FormText |-> "BaseInput"], StaticMapping(<<>>)),
    Configuration([FormText |-> ""],
                  StaticMapping(<< Rule("label", Fn(Str("tag"))) >>)),
    Configuration([FormText |-> "BaseInput"],
                  StaticMapping(<< Rule("label", Fn(False)) >>)) }

\* ------------------------------------------------------------------- state
VARIABLES
  mapComponents,   \* LookupPlugin's configuration.mapComponents
  mapProps,        \* LookupPlugin's configuration.mapProps
  heap,            \* the live element objects
  parsedSchema,    \* baseReturns.parsedSchema.value, the upstream schema
  replacedSchema,  \* replacedSchema.value, the output reference
  dirty,           \* the effect is scheduled to run
  pc,              \* position in the effect: "idle" or "line18"
  error,           \* what the last run of the effect threw
  call,            \* a direct call of one of the functions: its arguments
  ret              \* and what it returned

vars == << mapComponents, mapProps, heap, parsedSchema, replacedSchema,
           dirty, pc, error, call, ret >>

\* `arg` is the contents of the schema argument when the call was made.
\* and `obj` the contents of the element argument.
NoCall ==
  [fn |-> "none", arg |-> UndefinedSchema, mp |-> NoMapProps, table |-> <<>>,
   el |-> 0, obj |-> <<>>, prop |-> "", directive |-> Lit(False)]
NoRet == [schema |-> UndefinedSchema, el |-> 0, err |-> "none"]

\* ----------------------------------------------------------- LookupPlugin
\* LookupPlugin(configuration)(baseReturns), up to  const replacedSchema =
\* ref() : the effect is registered and about to run for the first time.
Init ==
  /\ \E c \in Configurations :
       /\ mapComponents = c.mapComponents
       /\ mapProps = c.mapProps
  /\ \E rows \in SchemaValues :
       /\ heap = NewSchema(<<>>, rows).h
       /\ parsedSchema = NewSchema(<<>>, rows).r
  /\ replacedSchema = UndefinedSchema
  /\ dirty = TRUE
  /\ pc = "idle"
  /\ error = "none"
  /\ call = NoCall
  /\ ret = NoRet

\* The host assigns a new schema to parsedSchema.value; the effect, which
\* read it, is scheduled.  One step stands for a batch of assignments made
\* before the scheduler runs the effect: only the last value of a batch is
\* ever read, so the batch leaves the state its last assignment alone leaves.
SetParsedSchema ==
  /\ pc = "idle"
  /\ ~dirty
  /\ call.fn = "none"
  /\ \E rows \in SchemaValues :
       LET n == NewSchema(heap, rows)
           c == Collect(n.h, Refs(n.r) \o Refs(replacedSchema))
       IN /\ heap' = c.h
          /\ parsedSchema' = Renumber(n.r, c.at)
          /\ replacedSchema' = Renumber(replacedSchema, c.at)
  /\ dirty' = TRUE
  /\ UNCHANGED << mapComponents, mapProps, pc, error, call, ret >>

\* replacedSchema.value = mapProperties(parsedSchema.value, mapProps)
EffectMapProperties ==
  /\ pc = "idle"
  /\ dirty
  /\ call.fn = "none"
  /\ LET m == mapProperties(heap, parsedSchema, mapProps)
         c == Collect(m.h, Refs(parsedSchema) \o Refs(m.r))
     IN /\ heap' = c.h
        /\ replacedSchema' = Renumber(m.r, c.at)
  /\ dirty' = FALSE
  /\ pc' = "line18"
  /\ error' = "none"
  /\ UNCHANGED << mapComponents, mapProps, parsedSchema, call, ret >>

EffectMapComps_fromParsedSchema ==
  /\ pc = "line18"
  /\ LET m == mapComps(heap, parsedSchema, mapComponents)
         c == Collect(m.h, Refs(parsedSchema) \o Refs(m.r))
     IN /\ heap' = c.h
        /\ replacedSchema' = Renumber(m.r, c.at)
        /\ error' = "none"
  /\ pc' = "idle"
  /\ UNCHANGED << mapComponents, mapProps, parsedSchema, dirty, call, ret >>

\* replacedSchema.value = mapComps(replacedSchema.value, mapComponents)
EffectMapComps ==
  /\ pc = "line18"
  /\ LET m == mapComps(heap, replacedSchema, mapComponents)
         c == Collect(m.h, Refs(parsedSchema) \o Refs(m.r))
     IN IF m.err # "none"
          THEN /\ error' = m.err
               /\ UNCHANGED << heap, replacedSchema >>
          ELSE /\ heap' = c.h
               /\ replacedSchema' = Renumber(m.r, c.at)
               /\ error' = "none"
  /\ pc' = "idle"
  /\ UNCHANGED << mapComponents, mapProps, parsedSchema, dirty, call, ret >>

Next == SetParsedSchema \/ EffectMapProperties \/ EffectMapComps

Spec == Init /\ [][Next]_vars

\* ------------------------------------------------------- direct calls
\* The functions of the module called on their own, on a schema of the
\* input set: the heap holds the schema's objects and, after the call, the
\* objects the call returned.
InitFn ==
  /\ mapComponents = <<>>
  /\ mapProps = NoMapProps
  /\ \E rows \in SchemaValues :
       /\ heap = NewSchema(<<>>, rows).h
       /\ parsedSchema = NewSchema(<<>>, rows).r
  /\ replacedSchema = UndefinedSchema
  /\ dirty = FALSE
  /\ pc = "idle"
  /\ error = "none"
  /\ call = NoCall
  /\ ret = NoRet

\* mapProperties(schema, mp)
CallMapProperties ==
  /\ call.fn = "none"
  /\ \E mp \in MapPropsValues :
       LET m == mapProperties(heap, parsedSchema, mp)
           c == Collect(m.h, Refs(parsedSchema) \o Refs(m.r))
       IN /\ call' = [NoCall EXCEPT !.fn = "mapProperties", !.mp = mp,
                                    !.arg = Deep(heap, parsedSchema)]
          /\ heap' = c.h
          /\ ret' = [schema |-> Renumber(m.r, c.at), el |-> 0, err |-> m.err]
  /\ UNCHANGED << mapComponents, mapProps, parsedSchema, replacedSchema,
                  dirty, pc, error >>

\* mapComps(schema, table)
CallMapComps ==
  /\ call.fn = "none"
  /\ \E table \in Tables :
       LET m == mapComps(heap, parsedSchema, table)
           c == Collect(m.h, Refs(parsedSchema) \o Refs(m.r))
       IN /\ call' = [NoCall EXCEPT !.fn = "mapComps", !.table = table,
                                    !.arg = Deep(heap, parsedSchema)]
          /\ heap' = c.h
          /\ ret' = [schema |-> Renumber(m.r, c.at), el |-> 0, err |-> m.err]
  /\ UNCHANGED << mapComponents, mapProps, parsedSchema, replacedSchema,
                  dirty, pc, error >>

\* replacePropInElement(el, prop, replacement)
CallReplacePropInElement ==
  /\ call.fn = "none"
  /\ \E el \in 1..Len(heap), prop \in PropNames, directive \in Directives :
       LET m == replacePropInElement(heap, el, prop, directive)
           c == Collect(m.h, Refs(parsedSchema) \o << m.r >>)
       IN /\ call' = [NoCall EXCEPT !.fn = "replacePropInElement", !.el = el,
                                    !.obj = heap[el], !.prop = prop,
                                    !.directive = directive,
                                    !.arg = Deep(heap, parsedSchema)]
          /\ heap' = c.h
          /\ ret' = [schema |-> UndefinedSchema, el |-> c.at[m.r], err |-> "none"]
  /\ UNCHANGED << mapComponents, mapProps, parsedSchema, replacedSchema,
                  dirty, pc, error >>

NextFn == CallMapProperties \/ CallMapComps \/ CallReplacePropInElement

SpecFn == InitFn /\ [][NextFn]_vars

\* ================================================================ claims
\* Views of the state.
Upstream == Deep(heap, parsedSchema)
Output == Deep(heap, replacedSchema)

\* The last scheduled run of the effect has ended.
Settled == pc = "idle" /\ ~dirty /\ call.fn = "none"

\* mapComps(mapProperties(parsedSchema.value, mapProps), mapComponents), as
\* contents; `err` tells whether the composition throws.
TransformedOf(h, schema) ==
  LET p == mapProperties(h, schema, mapProps)
      q == mapComps(p.h, p.r, mapComponents)
  IN [err |-> q.err, schema |-> Deep(q.h, q.r)]
Transformed == TransformedOf(heap, parsedSchema)

SameShape(a, b) ==
  /\ Len(a.rows) = Len(b.rows)
  /\ \A i \in 1..Len(a.rows) : Len(a.rows[i]) = Len(b.rows[i])

\* C2: once the effect triggered by the latest change of the upstream
\* reference has run to completion, the output reference holds
\* mapComps(mapProperties(current upstream schema, mapProps), mapComponents):
\* properties are remapped before components, and the output is not the
\* transform of an older upstream value.
C2_OutputIsTransformOfCurrent ==
  (Settled /\ error = "none") =>
     /\ Transformed.err = "none"
     /\ Output = Transformed.schema

\* C2's case: a settled state after a run in which the order of the two
\* mappings matters (type is renamed to component, then component remapped).
C2_Witness ==
  /\ Settled /\ error = "none"
  /\ \E i \in 1..Len(Output.rows) : \E j \in 1..Len(Output.rows[i]) :
       /\ "type" \in DOMAIN Upstream.rows[i][j]
       /\ Upstream.rows[i][j]["type"] = "FormText"
       /\ "component" \in DOMAIN Output.rows[i][j]
       /\ Output.rows[i][j]["component"] = "BaseInput"
       /\ "type" \notin DOMAIN Output.rows[i][j]

\* C7: after a recomputation, whatever the configuration (mapProps absent,
\* invalid, a static mapping of any size including empty, or a function),
\* the output reference holds a schema with as many rows as the input and as
\* many elements in each row.
C7_ShapePreserved ==
  Settled => (replacedSchema.def /\ SameShape(replacedSchema, parsedSchema))

\* C8: no run of the pipeline changes the upstream schema: a step of the
\* effect leaves the upstream schema, its rows and its elements with the keys
\* and values they had, and every element of the pipeline's output is an
\* object distinct from the corresponding input element.
C8_InputImmutable ==
  /\ [][pc' # pc => Upstream' = Upstream]_vars
  /\ [](Settled /\ error = "none" =>
          \A i \in 1..Len(replacedSchema.rows) :
            \A j \in 1..Len(replacedSchema.rows[i]) :
              replacedSchema.rows[i][j] # parsedSchema.rows[i][j])

\* C8's case: a completed run that renamed or deleted a property of an
\* input element.
C8_Witness ==
  /\ Settled /\ error = "none"
  /\ replacedSchema.def
  /\ \E i \in 1..Len(Output.rows) : \E j \in 1..Len(Output.rows[i]) :
       DOMAIN Output.rows[i][j] # DOMAIN Upstream.rows[i][j]

\* C9: each run of the effect writes the output reference once: every step
\* that changes what the output reference holds leaves it holding the fully
\* transformed schema, never one to which only the property mapping has been
\* applied.
C9_SingleWrite ==
  [][Output' # Output =>
       LET t == TransformedOf(heap', parsedSchema')
       IN t.err = "none" /\ Output' = t.schema]_vars

\* ------------------------------------------------ claims on direct calls
\* The contents of the schema a call returned.
Returned == Deep(heap, ret.schema)

\* The element positions of the schema argument of a call.
Positions ==
  UNION { { << i, j >> : j \in 1..Len(call.arg.rows[i]) } : i \in 1..Len(call.arg.rows) }

ArgAt(pos) == call.arg.rows[pos[1]][pos[2]]
ReturnedAt(pos) == Returned.rows[pos[1]][pos[2]]

\* The Property Rewriter on an element object, as contents.
Rewritten(obj, prop, directive) ==
  LET x == replacePropInElement(<< obj >>, 1, prop, directive) IN x.h[x.r]

\* The rewriters of rules[1], rules[2], ... applied one after the other.
RewrittenBy(obj, rules) ==
  LET step[i \in 0..Len(rules)] ==
        IF i = 0 THEN obj
        ELSE Rewritten(step[i-1], rules[i].prop, rules[i].directive)
  IN step[Len(rules)]

\* The mapping that applies to an element of a mapProperties call.
MappingFor(obj) ==
  IF call.mp.kind = "function" THEN CallUserFunction(call.mp, obj) ELSE call.mp.rules

\* The name a directive gives the property, "" when it gives none.
NewName(directive) ==
  IF directive.val = False \/ (directive.isFn /\ Falsy(directive.val))
    THEN "" ELSE ToPropertyKey(directive.val)

IsRename(rule) ==
  /\ ~rule.directive.isFn
  /\ rule.directive.val.t = "string"
  /\ rule.directive.val.v # rule.prop

\* P was renamed to Q: P is gone, Q holds P's value, the rest is as it was.
Renamed(in, out, P, Q) ==
  IF P \in DOMAIN in
    THEN /\ DOMAIN out = (DOMAIN in \ {P}) \cup {Q}
         /\ out[Q] = in[P]
         /\ \A k \in DOMAIN in \ {P, Q} : out[k] = in[k]
    ELSE out = in

\* C1: for a static mapping with keys k1..kn, mapProperties returns the
\* result of applying the rewriter of k1 to every element, then the rewriter
\* of k2 to every element of that result, and so on: the effect of every
\* rule is present in the output.
C1_StaticRulesCompose ==
  (call.fn = "mapProperties" /\ call.mp.kind = "object" /\ Len(call.mp.rules) >= 1) =>
     /\ ret.schema.def
     /\ SameShape(Returned, call.arg)
     /\ \A pos \in Positions : ReturnedAt(pos) = RewrittenBy(ArgAt(pos), call.mp.rules)

\* C3: mapProperties(S, {}) with an empty static mapping returns a schema
\* deep-equal to S, never undefined.
C3_EmptyMappingIdentity ==
  (call.fn = "mapProperties" /\ call.mp = StaticMapping(<<>>)) =>
     /\ ret.schema.def
     /\ Returned = call.arg

\* C4 (as stated): when a single-rule static mapping {P: Q}, or the mapping a
\* per-element function returns for an element, directs P to the string Q
\* with Q # P, an element that contained P ends up without P and with Q
\* holding P's value, its other properties (except an overwritten Q) keeping
\* names and values; an element without P keeps its contents.
C4_Rename ==
  (/\ call.fn = "mapProperties"
   /\ \/ call.mp.kind = "object" /\ Len(call.mp.rules) = 1
      \/ call.mp.kind = "function") =>
     \A pos \in Positions :
       LET m == MappingFor(ArgAt(pos)) IN
       \A k \in 1..Len(m) :
         IsRename(m[k]) =>
           Renamed(ArgAt(pos), ReturnedAt(pos), m[k].prop, m[k].directive.val.v)

\* C4 (amended): the same, for a single-rule static mapping {P: Q} and for a
\* per-element function whose mapping for the element has the single entry
\* P: Q.
C4_RenameSingleEntry ==
  (/\ call.fn = "mapProperties"
   /\ call.mp.kind \in {"object", "function"}) =>
     \A pos \in Positions :
       LET m == MappingFor(ArgAt(pos)) IN
       (Len(m) = 1 /\ IsRename(m[1])) =>
          Renamed(ArgAt(pos), ReturnedAt(pos), m[1].prop, m[1].directive.val.v)

\* C4's case: a per-element function renamed P to Q on an element that had
\* both, overwriting the Q it had.
C4_Witness ==
  /\ call.fn = "mapProperties"
  /\ call.mp.kind = "function"
  /\ \E pos \in Positions :
       LET m == MappingFor(ArgAt(pos)) IN
       /\ Len(m) = 1 /\ IsRename(m[1])
       /\ {m[1].prop, m[1].directive.val.v} \subseteq DOMAIN ArgAt(pos)
       /\ ArgAt(pos)[m[1].prop] # ArgAt(pos)[m[1].directive.val.v]
       /\ ReturnedAt(pos)[m[1].directive.val.v] = ArgAt(pos)[m[1].prop]
       /\ m[1].prop \notin DOMAIN ReturnedAt(pos)

\* C5: when the directive of P is the literal false, in a static mapping or in
\* the mapping a per-element function returns, no element has P after
\* mapProperties (no other entry being directed to the name P), and where
\* that entry is the mapping's only one each element's keys are its original
\* keys minus P, with their values.
C5_Delete ==
  (call.fn = "mapProperties" /\ call.mp.kind \in {"object", "function"}) =>
     \A pos \in Positions :
       LET m == MappingFor(ArgAt(pos)) IN
       \A k \in 1..Len(m) :
         (/\ m[k].directive = Lit(False)
          /\ \A l \in 1..Len(m) : NewName(m[l].directive) # m[k].prop) =>
            /\ ret.schema.def
            /\ m[k].prop \notin DOMAIN ReturnedAt(pos)
            /\ Len(m) = 1 => ReturnedAt(pos) = DeleteProp(ArgAt(pos), m[k].prop)

\* C6: mapComps: where the table has an entry for the element's component,
\* the output element's component is the mapped value, whatever string the
\* entry holds; where it has none, the output element is deep-equal to the
\* input; no other property is changed, added or removed.
C6_ComponentMapper ==
  call.fn = "mapComps" =>
     /\ ret.schema.def
     /\ SameShape(Returned, call.arg)
     /\ \A pos \in Positions :
          LET in == ArgAt(pos) IN
          ReturnedAt(pos) =
            IF "component" \in DOMAIN in /\ in["component"] \in DOMAIN call.table
              THEN SetProp(in, "component", call.table[in["component"]])
              ELSE in

\* C10: a function directive that returns a falsy value (false, undefined,
\* null, "" or 0) makes the Property Rewriter return the element itself, P
\* and every other property unchanged; only the literal false deletes; a
\* function that returns the non-empty string Q renames P to Q as the string
\* directive Q does.
C10_FunctionDirective ==
  call.fn = "replacePropInElement" =>
     LET d == call.directive
         P == call.prop
     IN /\ (d.isFn /\ Falsy(d.val)) =>
              (ret.el = call.el /\ heap[ret.el] = call.obj)
        /\ (d.isFn /\ ~Falsy(d.val)) =>
              /\ heap[ret.el] = Rewritten(call.obj, P, Lit(d.val))
              /\ Renamed(call.obj, heap[ret.el], P, d.val.v)
        /\ (d = Lit(False) /\ P \in DOMAIN call.obj) =>
              heap[ret.el] = DeleteProp(call.obj, P)
        /\ P \in DOMAIN call.obj /\ P \notin DOMAIN heap[ret.el] /\ NewName(d) = ""
              => d = Lit(False)

\* C10's case: a function directive returned false for a property the
\* element has, and the element came back as it was.
C10_Witness ==
  /\ call.fn = "replacePropInElement"
  /\ call.directive = Fn(False)
  /\ call.prop \in DOMAIN call.obj
  /\ ret.el = call.el
  /\ call.prop \in DOMAIN heap[ret.el]

====
